---- MODULE Spec2Model ----
(***************************************************************************)
(* UserProfileModal (client/src/components/user-profile-modal.tsx): the    *)
(* view/edit mode machine, the two react-hook-form forms, the two          *)
(* useMutation pipelines and the useQuery profile cache with its sync      *)
(* effect.  Form strings are sequences of characters.                      *)
(***************************************************************************)
EXTENDS Integers, Sequences, FiniteSets

VARIABLES
    open,         \* prop `open` of the modal, owned by the host
    user,         \* useAuth().user?.id, NoUser when there is no user
    viewMode,     \* useState<ViewMode>("view")
    tab,          \* value of the uncontrolled <Tabs defaultValue="profile">
    profileForm,  \* values of profileForm (fullName, email, mobile)
    passwordForm, \* values of passwordForm (currentPassword, newPassword, confirmPassword)
    inflight,     \* per pipeline, the PATCH requests issued and not yet answered
    queryData,    \* per user id, the cached profile: <<>> (undefined) or <<record>>
    invalidated,  \* per user id, the cache entry is marked invalidated
    fetching,     \* per user id, a GET of the profile is in flight
    toasts,       \* the toast() calls made by the latest step, in order
    issues,       \* the validation issues the latest step's handleSubmit reported
    formSource,   \* history: what wrote profileForm last (default, fetch, typed, submit)
    event         \* the event the latest step handled, with its input

vars == <<open, user, viewMode, tab, profileForm, passwordForm, inflight,
          queryData, invalidated, fetching, toasts, issues, formSource, event>>

-----------------------------------------------------------------------------
(* Bounds and input sets *)

\* cap on the requests one pipeline may have in flight (never reached while
\* the submit button honours isPending)
MaxInFlight == 2

NoUser == 0
UserIds == {1, 2}

Pipelines == {"profile", "password"}

Jane     == <<"J", "a", "n", "e">>
JaneMail == <<"j", "@", "x", ".", "c", "o">>
M555     == <<"5", "5", "5">>
Old      == <<"O", "l", "d">>
New      == <<"N", "e", "w">>
BadMail  == <<"j", "@", "x">>
Pin0000  == <<"0", "0", "0", "0">>
Pin1234  == <<"1", "2", "3", "4">>
Pin12    == <<"1", "2">>

\* answers of the server to GET/PATCH profile; a field may be absent
RecJane == [fullName |-> Jane, email |-> JaneMail, mobile |-> M555]
RecOld  == [fullName |-> Old, email |-> <<>>]
ServerRecords == {RecJane, RecOld}

ServerMessages == {"403: Forbidden", "400: Current PIN is incorrect"}

\* what the user types in this specification
ProfileInputs == {<<"fullName", New>>, <<"email", BadMail>>}
PasswordInputs == {<<"currentPassword", Pin0000>>, <<"newPassword", Pin1234>>,
                   <<"confirmPassword", Pin1234>>}

-----------------------------------------------------------------------------
(* Pure helpers *)

Letters == {"a", "c", "e", "j", "l", "n", "o", "w", "x", "d", "J", "N", "O"}
Digits  == {"0", "1", "2", "3", "4", "5"}
AlNum   == Letters \cup Digits

\* positions of character c in s
Positions(s, c) == {i \in 1..Len(s) : s[i] = c}

\* one dot-separated label of the domain part: [A-Z0-9][A-Z0-9\-]*
IsLabel(s) ==
    /\ Len(s) >= 1
    /\ s[1] \in AlNum
    /\ \A i \in 1..Len(s) : s[i] \in AlNum \cup {"-"}

\* the last label: [A-Z]{2,}
IsTld(s) == Len(s) >= 2 /\ \A i \in 1..Len(s) : s[i] \in Letters

\* domain part: ([A-Z0-9][A-Z0-9\-]*\.)+[A-Z]{2,}
IsDomain(s) ==
    LET dots == Positions(s, ".")
        cuts == {0} \cup dots \cup {Len(s) + 1}
        NextCut(i) == CHOOSE j \in cuts : j > i /\ \A k \in cuts : k > i => j <= k
    IN  /\ dots # {}
        /\ \A i \in cuts \ {Len(s) + 1} :
              LET lab == SubSeq(s, i + 1, NextCut(i) - 1)
              IN  IF NextCut(i) = Len(s) + 1 THEN IsTld(lab) ELSE IsLabel(lab)

\* local part: ([A-Z0-9_'+\-\.]*)[A-Z0-9_+-]
IsLocal(s) ==
    /\ Len(s) >= 1
    /\ \A i \in 1..Len(s) : s[i] \in AlNum \cup {"_", "'", "+", "-", "."}
    /\ s[Len(s)] \in AlNum \cup {"_", "+", "-"}

\* z.string().email(): ^(?!\.)(?!.*\.\.)local@domain$
IsEmail(s) ==
    /\ Len(s) >= 1
    /\ s[1] # "."
    /\ \A i \in 1..(Len(s) - 1) : ~(s[i] = "." /\ s[i + 1] = ".")
    /\ Cardinality(Positions(s, "@")) = 1
    /\ LET at == CHOOSE i \in Positions(s, "@") : TRUE
       IN  /\ IsLocal(SubSeq(s, 1, at - 1))
           /\ IsDomain(SubSeq(s, at + 1, Len(s)))

\* variant: the schema lacks .or(z.literal(""))
ProfileValid_NoEmptyLiteral(f) == IsEmail(f.email)

\* profileSchema: fullName and mobile are free; email is an email or ""
ProfileValid(f) == IsEmail(f.email) \/ f.email = <<>>

\* the issues profileSchema reports for form values f
ProfileIssues(f) ==
    IF ProfileValid(f) THEN <<>>
    ELSE <<[path |-> "email", message |-> "Invalid email address"]>>

\* one issue when the condition fails
IssueUnless(ok, path, message) ==
    IF ok THEN <<>> ELSE <<[path |-> path, message |-> message]>>

\* variant: the refinement is skipped when a field rule has failed
PasswordIssues_RefineAfterFields(f) ==
    LET fields ==
          IssueUnless(Len(f.currentPassword) >= 1, "currentPassword",
                      "Current PIN is required")
          \o IssueUnless(Len(f.newPassword) >= 4, "newPassword",
                         "PIN must be at least 4 characters")
          \o IssueUnless(Len(f.confirmPassword) >= 1, "confirmPassword",
                         "Confirm PIN is required")
    IN  IF fields # <<>> THEN fields
        ELSE IssueUnless(f.newPassword = f.confirmPassword, "confirmPassword",
                         "PINs don't match")

\* variant: the new PIN needs one character only
PasswordIssues_AnyLength(f) ==
    IssueUnless(Len(f.currentPassword) >= 1, "currentPassword",
                "Current PIN is required")
    \o IssueUnless(Len(f.newPassword) >= 1, "newPassword",
                   "PIN must be at least 4 characters")
    \o IssueUnless(Len(f.confirmPassword) >= 1, "confirmPassword",
                   "Confirm PIN is required")
    \o IssueUnless(f.newPassword = f.confirmPassword, "confirmPassword",
                   "PINs don't match")

\* the issues passwordSchema reports for form values f, in order: the three
\* field rules (a string that is too short leaves the object parsed), then
\* the refinement, reported on path confirmPassword
PasswordIssues(f) ==
    IssueUnless(Len(f.currentPassword) >= 1, "currentPassword",
                "Current PIN is required")
    \o IssueUnless(Len(f.newPassword) >= 4, "newPassword",
                   "PIN must be at least 4 characters")
    \o IssueUnless(Len(f.confirmPassword) >= 1, "confirmPassword",
                   "Confirm PIN is required")
    \o IssueUnless(f.newPassword = f.confirmPassword, "confirmPassword",
                   "PINs don't match")

\* passwordSchema accepts f
PasswordValid(f) == PasswordIssues(f) = <<>>

\* variant: the whole form is sent
PasswordRequestBody_WholeForm(f) ==
    [currentPin |-> f.currentPassword, newPin |-> f.newPassword,
     confirmPin |-> f.confirmPassword]

\* the body updatePasswordMutation.mutationFn sends
PasswordRequestBody(f) ==
    [currentPin |-> f.currentPassword, newPin |-> f.newPassword]

\* the body updateProfileMutation.mutationFn sends: the parsed form values
ProfileRequestBody(f) ==
    [fullName |-> f.fullName, email |-> f.email, mobile |-> f.mobile]

\* record.field || "": absent and empty both give ""
OrEmpty(r, field) ==
    IF field \in DOMAIN r /\ r[field] # <<>> THEN r[field] ELSE <<>>

\* variant: the reset object leaves mobile out
ProfileValues_DropsMobile(r) ==
    [fullName |-> OrEmpty(r, "fullName"),
     email    |-> OrEmpty(r, "email"),
     mobile   |-> <<>>]

\* the object handed to profileForm.reset
ProfileValues(r) ==
    [fullName |-> OrEmpty(r, "fullName"),
     email    |-> OrEmpty(r, "email"),
     mobile   |-> OrEmpty(r, "mobile")]

ProfileDefaults == [fullName |-> <<>>, email |-> <<>>, mobile |-> <<>>]
PasswordDefaults ==
    [currentPassword |-> <<>>, newPassword |-> <<>>, confirmPassword |-> <<>>]

\* the Mode of the specification, from viewMode and the active tab
Mode ==
    IF viewMode = "view" THEN "View"
    ELSE IF tab = "profile" THEN "EditProfile" ELSE "EditPin"

\* useMutation(...).isPending
IsPending(p) == inflight[p] # <<>>

\* variant: the query is enabled whenever there is a user
QueryEnabled_IgnoresOpen(u, o) == u # NoUser

\* useQuery enabled: !!user?.id && open
QueryEnabled(u, o) == u # NoUser /\ o

\* toast() arguments
ToastOk(title) == [title |-> title, description |-> "", variant |-> "default"]
ToastError(title, message) ==
    [title |-> title, description |-> message, variant |-> "destructive"]

\* the record of a step: the event handled, the Mode it met, its inputs
Ev(name, args) == <<name, Mode>> \o args

\* variant: the answered request stays in flight
RemoveAt_Keeps(s, i) == s

\* sequence s without its i-th element
RemoveAt(s, i) == SubSeq(s, 1, i - 1) \o SubSeq(s, i + 1, Len(s))

-----------------------------------------------------------------------------
(* Initial state: the modal is mounted closed for a signed-in user *)

Init ==
    /\ open = FALSE
    /\ user = 1
    /\ viewMode = "view"
    /\ tab = "profile"
    /\ profileForm = ProfileDefaults
    /\ passwordForm = PasswordDefaults
    /\ inflight = [p \in Pipelines |-> <<>>]
    /\ queryData = [u \in UserIds |-> <<>>]
    /\ invalidated = [u \in UserIds |-> FALSE]
    /\ fetching = [u \in UserIds |-> FALSE]
    /\ toasts = <<>>
    /\ issues = <<>>
    /\ formSource = "default"
    /\ event = <<"mount", "View">>

-----------------------------------------------------------------------------
(* Parts of handlers *)

\* variant: the effect forgets passwordForm.reset()
CloseEffect_KeepsPin ==
    /\ viewMode' = "view"
    /\ tab' = "profile"
    /\ passwordForm' = passwordForm

\* variant: the effect forgets setViewMode("view")
CloseEffect_KeepsMode ==
    /\ viewMode' = viewMode
    /\ tab' = tab
    /\ passwordForm' = PasswordDefaults

\* useEffect on `open`: when the dialog is closed, back to view and
\* passwordForm.reset().  Leaving the edit surface unmounts <Tabs>, which
\* mounts again on its defaultValue.
CloseEffect ==
    /\ viewMode' = "view"
    /\ tab' = "profile"
    /\ passwordForm' = PasswordDefaults

\* queryClient.invalidateQueries for the profile key of user u: the entry is
\* marked invalidated, and refetched at once when an enabled observer
\* watches it.
InvalidateQueries(u) ==
    IF u = NoUser
    THEN UNCHANGED <<invalidated, fetching>>
    ELSE /\ invalidated' = [invalidated EXCEPT ![u] = TRUE]
         /\ fetching' = [fetching EXCEPT ![u] = @ \/ QueryEnabled(user, open)]

-----------------------------------------------------------------------------
(* Host and user actions *)

\* the host sets open = true; the query becomes enabled and fetches when it
\* has no data, is invalidated, or (depending on staleTime) is stale
HostOpen ==
    /\ ~open
    /\ open' = TRUE
    /\ \E stale \in BOOLEAN :
          fetching' =
            IF user # NoUser
               /\ (queryData[user] = <<>> \/ invalidated[user] \/ stale)
            THEN [fetching EXCEPT ![user] = TRUE]
            ELSE fetching
    /\ toasts' = <<>>
    /\ issues' = <<>>
    /\ event' = Ev("HostOpen", <<>>)
    /\ UNCHANGED <<user, viewMode, tab, profileForm, formSource, passwordForm, inflight,
                   queryData, invalidated>>

\* button-close-profile: onOpenChange(false); setViewMode("view"); the host
\* sets open = false and the effect on `open` runs
HandleClose ==
    /\ open
    /\ viewMode = "view"
    /\ open' = FALSE
    /\ CloseEffect
    /\ toasts' = <<>>
    /\ issues' = <<>>
    /\ event' = Ev("HandleClose", <<passwordForm>>)
    /\ UNCHANGED <<user, profileForm, formSource, inflight, queryData, invalidated, fetching>>

\* variant: closing the dialog aborts the requests in flight
DialogDismiss_Aborts ==
    /\ open
    /\ open' = FALSE
    /\ CloseEffect
    /\ inflight' = [p \in Pipelines |-> <<>>]
    /\ toasts' = <<>>
    /\ issues' = <<>>
    /\ event' = Ev("DialogDismiss", <<passwordForm>>)
    /\ UNCHANGED <<user, profileForm, formSource, queryData, invalidated, fetching>>

\* <Dialog onOpenChange>: escape, overlay or the dialog's own close control,
\* in any mode
DialogDismiss ==
    /\ open
    /\ open' = FALSE
    /\ CloseEffect
    /\ toasts' = <<>>
    /\ issues' = <<>>
    /\ event' = Ev("DialogDismiss", <<passwordForm>>)
    /\ UNCHANGED <<user, profileForm, formSource, inflight, queryData, invalidated, fetching>>

\* variant: the edit surface opens on the PIN tab
EditProfileClick_ToPin ==
    /\ open
    /\ viewMode = "view"
    /\ viewMode' = "edit"
    /\ tab' = "password"
    /\ toasts' = <<>>
    /\ issues' = <<>>
    /\ event' = Ev("EditProfileClick", <<>>)
    /\ UNCHANGED <<open, user, profileForm, formSource, passwordForm, inflight, queryData,
                   invalidated, fetching>>

\* button-edit-profile
EditProfileClick ==
    /\ open
    /\ viewMode = "view"
    /\ viewMode' = "edit"
    /\ tab' = "profile"
    /\ toasts' = <<>>
    /\ issues' = <<>>
    /\ event' = Ev("EditProfileClick", <<>>)
    /\ UNCHANGED <<open, user, profileForm, formSource, passwordForm, inflight, queryData,
                   invalidated, fetching>>

\* tab-profile / tab-password
TabClick(t) ==
    /\ open
    /\ viewMode = "edit"
    /\ tab # t
    /\ tab' = t
    /\ toasts' = <<>>
    /\ issues' = <<>>
    /\ event' = Ev("TabClick", <<t>>)
    /\ UNCHANGED <<open, user, viewMode, profileForm, formSource, passwordForm, inflight,
                   queryData, invalidated, fetching>>

\* variant: cancel also calls profileForm.reset()
CancelProfileClick_Resets ==
    /\ open
    /\ viewMode = "edit"
    /\ tab = "profile"
    /\ viewMode' = "view"
    /\ tab' = "profile"
    /\ profileForm' = ProfileDefaults
    /\ formSource' = "default"
    /\ toasts' = <<>>
    /\ issues' = <<>>
    /\ event' = Ev("CancelProfileClick", <<>>)
    /\ UNCHANGED <<open, user, passwordForm, inflight, queryData, invalidated, fetching>>

\* button-cancel-profile
CancelProfileClick ==
    /\ open
    /\ viewMode = "edit"
    /\ tab = "profile"
    /\ viewMode' = "view"
    /\ tab' = "profile"
    /\ toasts' = <<>>
    /\ issues' = <<>>
    /\ event' = Ev("CancelProfileClick", <<>>)
    /\ UNCHANGED <<open, user, profileForm, formSource, passwordForm, inflight, queryData,
                   invalidated, fetching>>

\* button-cancel-password
CancelPasswordClick ==
    /\ open
    /\ viewMode = "edit"
    /\ tab = "password"
    /\ viewMode' = "view"
    /\ tab' = "profile"
    /\ toasts' = <<>>
    /\ issues' = <<>>
    /\ event' = Ev("CancelPasswordClick", <<>>)
    /\ UNCHANGED <<open, user, profileForm, formSource, passwordForm, inflight, queryData,
                   invalidated, fetching>>

\* input-fullname / input-email / input-mobile: the field takes value v
TypeProfile(field, v) ==
    /\ open
    /\ viewMode = "edit"
    /\ tab = "profile"
    /\ profileForm[field] # v
    /\ profileForm' = [profileForm EXCEPT ![field] = v]
    /\ formSource' = "typed"
    /\ toasts' = <<>>
    /\ issues' = <<>>
    /\ event' = Ev("TypeProfile", <<field, v>>)
    /\ UNCHANGED <<open, user, viewMode, tab, passwordForm, inflight, queryData,
                   invalidated, fetching>>

\* input-current-password / input-new-password / input-confirm-password
TypePassword(field, v) ==
    /\ open
    /\ viewMode = "edit"
    /\ tab = "password"
    /\ passwordForm[field] # v
    /\ passwordForm' = [passwordForm EXCEPT ![field] = v]
    /\ toasts' = <<>>
    /\ issues' = <<>>
    /\ event' = Ev("TypePassword", <<field, v>>)
    /\ UNCHANGED <<open, user, viewMode, tab, profileForm, formSource, inflight, queryData,
                   invalidated, fetching>>

\* variant: the submit control ignores isPending
SubmitEnabled_Always(p) == TRUE

\* the submit control of a pipeline: disabled={mutation.isPending}
SubmitEnabled(p) == ~IsPending(p)

\* button-save-profile: profileForm.handleSubmit(onProfileSubmit); a valid
\* form is handed to updateProfileMutation.mutate, an invalid one only
\* shows its field errors
ProfileSubmit ==
    /\ open
    /\ viewMode = "edit"
    /\ tab = "profile"
    /\ SubmitEnabled("profile")
    /\ Len(inflight["profile"]) < MaxInFlight
    /\ inflight' =
         IF ProfileValid(profileForm)
         THEN [inflight EXCEPT !["profile"] =
                 Append(@, [userId |-> user,
                            body |-> ProfileRequestBody(profileForm)])]
         ELSE inflight
    /\ toasts' = <<>>
    /\ issues' = ProfileIssues(profileForm)
    /\ event' = Ev("ProfileSubmit", <<>>)
    /\ UNCHANGED <<open, user, viewMode, tab, profileForm, formSource, passwordForm,
                   queryData, invalidated, fetching>>

\* button-update-password: passwordForm.handleSubmit(onPasswordSubmit); the
\* request carries currentPin and newPin only
PasswordSubmit ==
    /\ open
    /\ viewMode = "edit"
    /\ tab = "password"
    /\ SubmitEnabled("password")
    /\ Len(inflight["password"]) < MaxInFlight
    /\ inflight' =
         IF PasswordValid(passwordForm)
         THEN [inflight EXCEPT !["password"] =
                 Append(@, [userId |-> user,
                            body |-> PasswordRequestBody(passwordForm)])]
         ELSE inflight
    /\ toasts' = <<>>
    /\ issues' = PasswordIssues(passwordForm)
    /\ event' = Ev("PasswordSubmit", <<>>)
    /\ UNCHANGED <<open, user, viewMode, tab, profileForm, formSource, passwordForm,
                   queryData, invalidated, fetching>>

-----------------------------------------------------------------------------
(* Network answers *)

\* variant: onSuccess omits invalidateQueries
ProfileOnSuccess_NoInvalidate(data) ==
    /\ UNCHANGED <<invalidated, fetching>>
    /\ profileForm' = ProfileValues(data)
    /\ formSource' = "submit"
    /\ toasts' = <<ToastOk("Profile updated successfully")>>
    /\ issues' = <<>>
    /\ viewMode' = "view"
    /\ tab' = "profile"

\* what updateProfileMutation.onSuccess does with the answer `data`
ProfileOnSuccess(data) ==
    /\ InvalidateQueries(user)
    /\ profileForm' = ProfileValues(data)
    /\ formSource' = "submit"
    /\ toasts' = <<ToastOk("Profile updated successfully")>>
    /\ issues' = <<>>
    /\ viewMode' = "view"
    /\ tab' = "profile"

\* the PATCH of the profile is answered 2xx with record `data`
ProfileSuccess(i, data) ==
    /\ i \in DOMAIN inflight["profile"]
    /\ inflight' = [inflight EXCEPT !["profile"] = RemoveAt(@, i)]
    /\ ProfileOnSuccess(data)
    /\ event' = Ev("ProfileSuccess", <<data>>)
    /\ UNCHANGED <<open, user, passwordForm, queryData>>

\* variant: onError also leaves the edit surface
ProfileOnError_LeavesEdit(message) ==
    /\ toasts' = <<ToastError("Error updating profile", message)>>
    /\ issues' = <<>>
    /\ viewMode' = "view"
    /\ tab' = "profile"
    /\ UNCHANGED <<profileForm, formSource, passwordForm, queryData, invalidated, fetching>>

\* what updateProfileMutation.onError does
ProfileOnError(message) ==
    /\ toasts' = <<ToastError("Error updating profile", message)>>
    /\ issues' = <<>>
    /\ UNCHANGED <<viewMode, tab, profileForm, formSource, passwordForm, queryData,
                   invalidated, fetching>>

\* the PATCH of the profile fails with error.message = message
ProfileFailure(i, message) ==
    /\ i \in DOMAIN inflight["profile"]
    /\ inflight' = [inflight EXCEPT !["profile"] = RemoveAt(@, i)]
    /\ ProfileOnError(message)
    /\ event' = Ev("ProfileFailure", <<message>>)
    /\ UNCHANGED <<open, user>>

\* variant: onSuccess also invalidates the profile query
PasswordOnSuccess_Invalidates ==
    /\ InvalidateQueries(user)
    /\ toasts' = <<ToastOk("Security PIN updated successfully")>>
    /\ issues' = <<>>
    /\ passwordForm' = PasswordDefaults
    /\ viewMode' = "view"
    /\ tab' = "profile"
    /\ UNCHANGED <<profileForm, formSource, queryData>>

\* variant: onSuccess forgets passwordForm.reset()
PasswordOnSuccess_NoReset ==
    /\ toasts' = <<ToastOk("Security PIN updated successfully")>>
    /\ issues' = <<>>
    /\ passwordForm' = passwordForm
    /\ viewMode' = "view"
    /\ tab' = "profile"
    /\ UNCHANGED <<profileForm, formSource, queryData, invalidated, fetching>>

\* what updatePasswordMutation.onSuccess does
PasswordOnSuccess ==
    /\ toasts' = <<ToastOk("Security PIN updated successfully")>>
    /\ issues' = <<>>
    /\ passwordForm' = PasswordDefaults
    /\ viewMode' = "view"
    /\ tab' = "profile"
    /\ UNCHANGED <<profileForm, formSource, queryData, invalidated, fetching>>

\* the PATCH of the PIN is answered 2xx
PasswordSuccess(i) ==
    /\ i \in DOMAIN inflight["password"]
    /\ inflight' = [inflight EXCEPT !["password"] = RemoveAt(@, i)]
    /\ PasswordOnSuccess
    /\ event' = Ev("PasswordSuccess", <<>>)
    /\ UNCHANGED <<open, user>>

\* variant: onError clears the PIN form as onSuccess does
PasswordOnError_Resets(message) ==
    /\ toasts' = <<ToastError("Error updating Security PIN", message)>>
    /\ issues' = <<>>
    /\ passwordForm' = PasswordDefaults
    /\ UNCHANGED <<viewMode, tab, profileForm, formSource, queryData, invalidated, fetching>>

\* what updatePasswordMutation.onError does
PasswordOnError(message) ==
    /\ toasts' = <<ToastError("Error updating Security PIN", message)>>
    /\ issues' = <<>>
    /\ UNCHANGED <<viewMode, tab, profileForm, formSource, passwordForm, queryData,
                   invalidated, fetching>>

\* the PATCH of the PIN fails with error.message = message
PasswordFailure(i, message) ==
    /\ i \in DOMAIN inflight["password"]
    /\ inflight' = [inflight EXCEPT !["password"] = RemoveAt(@, i)]
    /\ PasswordOnError(message)
    /\ event' = Ev("PasswordFailure", <<message>>)
    /\ UNCHANGED <<open, user>>

\* variant: the effect keeps the fields the user has filled in
SyncEffect_Merge(r) ==
    /\ profileForm' =
         [f \in {"fullName", "email", "mobile"} |->
            IF profileForm[f] # <<>> THEN profileForm[f] ELSE OrEmpty(r, f)]
    /\ formSource' = "fetch"

\* useEffect on userProfile: a new value of the query's data, when truthy,
\* resets profileForm to it
SyncEffect(r) ==
    /\ profileForm' = ProfileValues(r)
    /\ formSource' = "fetch"

\* the GET of user u's profile is answered with record r.  Data deep-equal
\* to the cached value keeps its reference, so the effect does not run; the
\* effect sees only the data of the current user's key.
FetchSuccess(u, r) ==
    /\ fetching[u]
    /\ fetching' = [fetching EXCEPT ![u] = FALSE]
    /\ invalidated' = [invalidated EXCEPT ![u] = FALSE]
    /\ queryData' = [queryData EXCEPT ![u] = <<r>>]
    /\ IF u = user /\ queryData[u] # <<r>>
       THEN SyncEffect(r)
       ELSE UNCHANGED <<profileForm, formSource>>
    /\ toasts' = <<>>
    /\ issues' = <<>>
    /\ event' = Ev("FetchSuccess", <<u, r, profileForm, formSource>>)
    /\ UNCHANGED <<open, user, viewMode, tab, passwordForm, inflight>>

\* the GET fails: the cached value stays
FetchFailure(u) ==
    /\ fetching[u]
    /\ fetching' = [fetching EXCEPT ![u] = FALSE]
    /\ toasts' = <<>>
    /\ issues' = <<>>
    /\ event' = Ev("FetchFailure", <<u>>)
    /\ UNCHANGED <<open, user, viewMode, tab, profileForm, formSource, passwordForm,
                   inflight, queryData, invalidated>>

-----------------------------------------------------------------------------

Next ==
    \/ HostOpen
    \/ HandleClose
    \/ DialogDismiss
    \/ EditProfileClick
    \/ \E t \in {"profile", "password"} : TabClick(t)
    \/ CancelProfileClick
    \/ CancelPasswordClick
    \/ \E in \in ProfileInputs : TypeProfile(in[1], in[2])
    \/ \E in \in PasswordInputs : TypePassword(in[1], in[2])
    \/ ProfileSubmit
    \/ PasswordSubmit
    \/ \E i \in 1..MaxInFlight, data \in ServerRecords : ProfileSuccess(i, data)
    \/ \E i \in 1..MaxInFlight, m \in ServerMessages : ProfileFailure(i, m)
    \/ \E i \in 1..MaxInFlight : PasswordSuccess(i)
    \/ \E i \in 1..MaxInFlight, m \in ServerMessages : PasswordFailure(i, m)
    \/ \E u \in UserIds, r \in ServerRecords : FetchSuccess(u, r)
    \/ \E u \in UserIds : FetchFailure(u)

Spec == Init /\ [][Next]_vars

TypeOK ==
    /\ open \in BOOLEAN
    /\ user \in UserIds \cup {NoUser}
    /\ viewMode \in {"view", "edit"}
    /\ tab \in {"profile", "password"}
    /\ Len(toasts) <= 1

-----------------------------------------------------------------------------
(* Submission of arbitrary form contents: the dialog is on its edit       *)
(* surface with the forms filled from the sets below                      *)

Pin123     == <<"1", "2", "3">>
DotFirst   == <<".", "j", "@", "x", ".", "c", "o">>
DoubleDot  == <<"j", ".", ".", "j", "@", "x", ".", "c", "o">>
DotAtEnd   == <<"j", ".", "@", "x", ".", "c", "o">>
NoAt       == <<"j", "x", ".", "c", "o">>
TwoAts     == <<"j", "@", "@", "x", ".", "c", "o">>
ShortTld   == <<"j", "@", "x", ".", "c">>
DigitTld   == <<"j", "@", "x", ".", "c", "0">>
DashLabel  == <<"j", "@", "-", "x", ".", "c", "o">>
SubDomain  == <<"j", ".", "j", "@", "x", "-", "x", ".", "x", ".", "c", "o">>
PlusMail   == <<"j", "+", "1", "@", "x", ".", "c", "o">>

FormEmails == {<<>>, BadMail, JaneMail, DotFirst, DoubleDot, DotAtEnd, NoAt,
               TwoAts, ShortTld, DigitTld, DashLabel, SubDomain, PlusMail}
FormProfiles ==
    [fullName : {<<>>, New}, email : FormEmails, mobile : {<<>>, M555}]
FormPins ==
    [currentPassword : {<<>>, Pin0000},
     newPassword     : {<<>>, Pin12, Pin123, Pin1234},
     confirmPassword : {<<>>, Pin12, Pin1234, Pin0000}]

InitForms ==
    /\ open = TRUE
    /\ user = 1
    /\ viewMode = "edit"
    /\ tab \in {"profile", "password"}
    /\ profileForm \in FormProfiles
    /\ passwordForm \in FormPins
    /\ inflight = [p \in Pipelines |-> <<>>]
    /\ queryData = [u \in UserIds |-> <<>>]
    /\ invalidated = [u \in UserIds |-> FALSE]
    /\ fetching = [u \in UserIds |-> FALSE]
    /\ toasts = <<>>
    /\ issues = <<>>
    /\ formSource = "typed"
    /\ event = <<"EditProfileClick", "View">>

NextForms ==
    \/ \E t \in {"profile", "password"} : TabClick(t)
    \/ ProfileSubmit
    \/ PasswordSubmit
    \/ \E i \in 1..MaxInFlight, m \in ServerMessages : ProfileFailure(i, m)
    \/ \E i \in 1..MaxInFlight, m \in ServerMessages : PasswordFailure(i, m)

SpecForms == InitForms /\ [][NextForms]_vars

-----------------------------------------------------------------------------
(* The signed-in user changes while the component is mounted *)

\* useAuth() yields another user (or none): the query observes the key of
\* the new id, fetches it when enabled and without fresh data, and the
\* effect on userProfile runs on the new key's cached value, doing nothing
\* when there is none
SetUser(u) ==
    /\ u # user
    /\ user' = u
    /\ \E stale \in BOOLEAN :
          fetching' =
            IF QueryEnabled(u, open)
               /\ (queryData[u] = <<>> \/ invalidated[u] \/ stale)
            THEN [fetching EXCEPT ![u] = TRUE]
            ELSE fetching
    /\ IF u # NoUser /\ queryData[u] # <<>>
       THEN SyncEffect(queryData[u][1])
       ELSE UNCHANGED <<profileForm, formSource>>
    /\ toasts' = <<>>
    /\ issues' = <<>>
    /\ event' = Ev("SetUser", <<u>>)
    /\ UNCHANGED <<open, viewMode, tab, passwordForm, inflight, queryData, invalidated>>

NextAuth ==
    \/ HostOpen
    \/ HandleClose
    \/ DialogDismiss
    \/ EditProfileClick
    \/ CancelProfileClick
    \/ TypeProfile("fullName", New)
    \/ ProfileSubmit
    \/ \E i \in 1..MaxInFlight, data \in ServerRecords : ProfileSuccess(i, data)
    \/ \E u \in UserIds, r \in ServerRecords : FetchSuccess(u, r)
    \/ \E u \in UserIds : FetchFailure(u)
    \/ \E u \in UserIds \cup {NoUser} : SetUser(u)

SpecAuth == Init /\ [][NextAuth]_vars

-----------------------------------------------------------------------------
(* The network eventually answers every request of a mutation *)

\* the awaited apiRequest of pipeline p settles: 2xx or an error
Resolve(p) ==
    IF p = "profile"
    THEN \/ \E i \in 1..MaxInFlight, data \in ServerRecords : ProfileSuccess(i, data)
         \/ \E i \in 1..MaxInFlight, m \in ServerMessages : ProfileFailure(i, m)
    ELSE \/ \E i \in 1..MaxInFlight : PasswordSuccess(i)
         \/ \E i \in 1..MaxInFlight, m \in ServerMessages : PasswordFailure(i, m)

NextLive ==
    \/ HostOpen
    \/ HandleClose
    \/ DialogDismiss
    \/ EditProfileClick
    \/ \E t \in {"profile", "password"} : TabClick(t)
    \/ CancelProfileClick
    \/ CancelPasswordClick
    \/ \E in \in PasswordInputs : TypePassword(in[1], in[2])
    \/ ProfileSubmit
    \/ PasswordSubmit
    \/ \E i \in 1..MaxInFlight, data \in ServerRecords : ProfileSuccess(i, data)
    \/ \E i \in 1..MaxInFlight, m \in ServerMessages : ProfileFailure(i, m)
    \/ \E i \in 1..MaxInFlight : PasswordSuccess(i)
    \/ \E i \in 1..MaxInFlight, m \in ServerMessages : PasswordFailure(i, m)

SpecLive ==
    /\ Init
    /\ [][NextLive]_vars
    /\ WF_vars(Resolve("profile"))
    /\ WF_vars(Resolve("password"))

-----------------------------------------------------------------------------
(* Vocabulary of the properties *)

EmptyPin ==
    [currentPassword |-> <<>>, newPassword |-> <<>>, confirmPassword |-> <<>>]

\* field `f` of answer R, or "" when it is absent or empty
FieldOrEmpty(R, f) ==
    IF f \in DOMAIN R THEN (IF R[f] = <<>> THEN <<>> ELSE R[f]) ELSE <<>>

\* {fullName: R.fullName or "", email: R.email or "", mobile: R.mobile or ""}
Triple(R) ==
    [fullName |-> FieldOrEmpty(R, "fullName"),
     email    |-> FieldOrEmpty(R, "email"),
     mobile   |-> FieldOrEmpty(R, "mobile")]

SuccessNote(title) ==
    [title |-> title, description |-> "", variant |-> "default"]
FailureNote(title, m) ==
    [title |-> title, description |-> m, variant |-> "destructive"]

\* the latest step handled event `name`
Did(name) == event[1] = name
\* the Mode the latest step started from
From == event[2]

-----------------------------------------------------------------------------
(* C1: whenever a profile update resolves successfully with answer R, the  *)
(* resulting state has ProfileFormState = {R.fullName or "", R.email or    *)
(* "", R.mobile or ""}, Mode = View, and exactly one success notification  *)
(* was emitted for it.                                                     *)
C1_ProfileSuccessEffects ==
    [][Did("ProfileSuccess")' =>
          /\ profileForm' = Triple(event'[3])
          /\ Mode' = "View"
          /\ toasts' = <<SuccessNote("Profile updated successfully")>>]_vars

\* an answer with absent and empty fields was applied from the edit surface
C1_Witness ==
    /\ Did("ProfileSuccess")
    /\ From = "EditProfile"
    /\ event[3] = RecOld
    /\ profileForm = [fullName |-> Old, email |-> <<>>, mobile |-> <<>>]
    /\ Mode = "View"

(* C2, as stated: after a failed profile update ProfileFormState equals    *)
(* its pre-submission values, Mode is EditProfile and exactly one failure  *)
(* notification carrying m was emitted, whatever happened between          *)
(* submission and failure.                                                 *)
C2_Original ==
    [][Did("ProfileFailure")' =>
          /\ profileForm' = Head(inflight["profile"]).body
          /\ Mode' = "EditProfile"
          /\ toasts' = <<FailureNote("Error updating profile", event'[3])>>]_vars

(* C2, amended: a failed profile update emits exactly one failure          *)
(* notification carrying m and itself changes neither ProfileFormState nor *)
(* Mode; they equal the pre-submission values and EditProfile when the     *)
(* failure directly follows the submission.                                *)
C2_ProfileFailureEffects ==
    [][Did("ProfileFailure")' =>
          /\ toasts' = <<FailureNote("Error updating profile", event'[3])>>
          /\ profileForm' = profileForm
          /\ Mode' = Mode
          /\ (Did("ProfileSubmit") =>
                /\ profileForm' = Head(inflight["profile"]).body
                /\ Mode' = "EditProfile")]_vars

\* the failure arrived right after the submission of an edited form
C2_Witness ==
    /\ Did("ProfileFailure")
    /\ From = "EditProfile"
    /\ Mode = "EditProfile"
    /\ profileForm.fullName = New
    /\ toasts = <<FailureNote("Error updating profile", "403: Forbidden")>>

(* C3: closing the dialog, from any Mode, with any PinFormState and        *)
(* whether or not a mutation is Pending, gives Mode = View and an empty    *)
(* PinFormState.                                                           *)
C3_CloseResets ==
    [][(open /\ ~open') => (Mode' = "View" /\ passwordForm' = EmptyPin)]_vars

\* closed from EditPin with a half-filled, invalid PIN form while the
\* profile update was pending
C3_Witness ==
    /\ Did("DialogDismiss")
    /\ From = "EditPin"
    /\ event[3].newPassword = Pin1234
    /\ event[3].confirmPassword = <<>>
    /\ IsPending("profile")
    /\ ~open
    /\ Mode = "View"
    /\ passwordForm = EmptyPin

(* C4: whenever a PIN update resolves successfully, the resulting state    *)
(* has an empty PinFormState and Mode = View, and a success notification   *)
(* is emitted.                                                             *)
C4_PinSuccessEffects ==
    [][Did("PasswordSuccess")' =>
          /\ passwordForm' = EmptyPin
          /\ Mode' = "View"
          /\ toasts' = <<SuccessNote("Security PIN updated successfully")>>]_vars

\* the answer met the PIN form still filled, on the PIN tab
C4_Witness ==
    /\ Did("PasswordSuccess")
    /\ From = "EditPin"
    /\ open
    /\ passwordForm = EmptyPin
    /\ Mode = "View"

C6_ReopenStartsInView ==
    [][/\ (~open /\ open') => Mode' = "View"
       /\ (Mode = "View" /\ Mode' # "View") =>
             (Did("EditProfileClick")' /\ open /\ Mode' = "EditProfile")]_vars

\* re-opened while the profile update of the earlier session is still pending
C6_Witness ==
    /\ Did("HostOpen")
    /\ open
    /\ Mode = "View"
    /\ IsPending("profile")
    /\ profileForm.fullName = New

(* C7: each pipeline has at most one mutation in flight; while it is       *)
(* Pending its submit is disabled; a Pending pipeline blocks neither the   *)
(* other pipeline's submit, nor tab switching, cancel or close.            *)
C7_OneInFlight ==
    /\ \A p \in Pipelines : Len(inflight[p]) <= 1
    /\ IsPending("profile") => ~ENABLED ProfileSubmit
    /\ IsPending("password") => ~ENABLED PasswordSubmit
    /\ (open /\ Mode = "EditProfile" /\ ~IsPending("profile")) => ENABLED ProfileSubmit
    /\ (open /\ Mode = "EditPin" /\ ~IsPending("password")) => ENABLED PasswordSubmit
    /\ (open /\ Mode = "EditProfile") =>
          (ENABLED TabClick("password") /\ ENABLED CancelProfileClick)
    /\ (open /\ Mode = "EditPin") =>
          (ENABLED TabClick("profile") /\ ENABLED CancelPasswordClick)
    /\ open => ENABLED DialogDismiss

\* both pipelines pending at once, the second submitted while the first was
C7_Witness ==
    /\ IsPending("profile")
    /\ IsPending("password")
    /\ Did("PasswordSubmit")
    /\ open

(* C8: whenever a profile fetch resolves with a new ProfileRecord r,       *)
(* ProfileFormState becomes {r.fullName or "", r.email or "", r.mobile or  *)
(* ""}, whatever the user had typed: the edits are discarded, not merged.  *)
C8_FetchOverwrites ==
    [][(Did("FetchSuccess")' /\ event'[3] = user /\ queryData[user] # <<event'[4]>>) =>
          profileForm' = Triple(event'[4])]_vars

\* the answer {fullName: "Old"} met a form in which the user had typed "New"
C8_Witness ==
    /\ Did("FetchSuccess")
    /\ From = "EditProfile"
    /\ event[4] = RecOld
    /\ event[5].fullName = New
    /\ event[5].email = BadMail
    /\ profileForm = [fullName |-> Old, email |-> <<>>, mobile |-> <<>>]

(* C9: an in-flight mutation is never cancelled: no step but its own       *)
(* resolution removes it, and a resolution applies all its effects in      *)
(* whatever Mode and whether the dialog is open or closed: on success the  *)
(* notification, the form reset, Mode := View and (profile) the cache      *)
(* invalidation; on failure the notification.                              *)
C9_ResolutionAlwaysApplies ==
    [][/\ \A p \in Pipelines :
            Len(inflight'[p]) < Len(inflight[p]) =>
               /\ Len(inflight'[p]) = Len(inflight[p]) - 1
               /\ event'[1] \in
                    (IF p = "profile" THEN {"ProfileSuccess", "ProfileFailure"}
                                      ELSE {"PasswordSuccess", "PasswordFailure"})
       /\ event'[1] \in {"HostOpen", "HandleClose", "DialogDismiss", "TabClick",
                         "CancelProfileClick", "CancelPasswordClick",
                         "EditProfileClick"} => inflight' = inflight
       /\ Did("ProfileSuccess")' =>
            /\ toasts' = <<SuccessNote("Profile updated successfully")>>
            /\ profileForm' = Triple(event'[3])
            /\ viewMode' = "view"
            /\ (user # NoUser => invalidated'[user])
       /\ Did("ProfileFailure")' =>
            toasts' = <<FailureNote("Error updating profile", event'[3])>>
       /\ Did("PasswordSuccess")' =>
            /\ toasts' = <<SuccessNote("Security PIN updated successfully")>>
            /\ passwordForm' = EmptyPin
            /\ viewMode' = "view"
       /\ Did("PasswordFailure")' =>
            toasts' = <<FailureNote("Error updating Security PIN", event'[3])>>]_vars

\* a profile update submitted in an earlier session resolved while the
\* dialog was closed: form reset, notification and invalidation all happened
C9_Witness ==
    /\ Did("ProfileSuccess")
    /\ ~open
    /\ event[3] = RecJane
    /\ profileForm = [fullName |-> Jane, email |-> JaneMail, mobile |-> M555]
    /\ toasts = <<SuccessNote("Profile updated successfully")>>
    /\ invalidated[user]
    /\ ~fetching[user]

EditModes == {"EditProfile", "EditPin"}
CloseEvents == {"HandleClose", "DialogDismiss"}

(* C10, as stated: every change of Mode is View -> EditProfile (edit       *)
(* request), EditProfile <-> EditPin (tab switch), EditProfile -> View     *)
(* (cancel or profile-update success), EditPin -> View (cancel or          *)
(* PIN-update success) or any -> View (dialog closed).                     *)
C10_Original ==
    [][Mode' # Mode =>
          \/ Mode = "View" /\ Mode' = "EditProfile" /\ Did("EditProfileClick")'
          \/ Mode \in EditModes /\ Mode' \in EditModes /\ Did("TabClick")'
          \/ Mode = "EditProfile" /\ Mode' = "View"
               /\ event'[1] \in {"CancelProfileClick", "ProfileSuccess"}
          \/ Mode = "EditPin" /\ Mode' = "View"
               /\ event'[1] \in {"CancelPasswordClick", "PasswordSuccess"}
          \/ Mode' = "View" /\ event'[1] \in CloseEvents /\ ~open']_vars

(* C10, amended: as stated, and in addition the success of either          *)
(* mutation takes either edit mode to View (EditProfile -> View on         *)
(* PIN-update success, EditPin -> View on profile-update success, when the *)
(* user switched tabs while it was pending); exactly one Mode is active.   *)
C10_ModeTransitions ==
    [][/\ Mode' \in {"View", "EditProfile", "EditPin"}
       /\ Mode' # Mode =>
          \/ Mode = "View" /\ Mode' = "EditProfile" /\ Did("EditProfileClick")'
          \/ Mode \in EditModes /\ Mode' \in EditModes /\ Did("TabClick")'
          \/ Mode = "EditProfile" /\ Mode' = "View"
               /\ event'[1] \in {"CancelProfileClick", "ProfileSuccess", "PasswordSuccess"}
          \/ Mode = "EditPin" /\ Mode' = "View"
               /\ event'[1] \in {"CancelPasswordClick", "PasswordSuccess", "ProfileSuccess"}
          \/ Mode' = "View" /\ event'[1] \in CloseEvents /\ ~open']_vars

\* a PIN update that succeeded after the user went back to the profile tab
\* took the dialog from EditProfile to View
C10_Witness ==
    /\ Did("PasswordSuccess")
    /\ From = "EditProfile"
    /\ Mode = "View"
    /\ open

-----------------------------------------------------------------------------
\* the issue of the cross-field rule, on the confirmPin field
MismatchIssue == [path |-> "confirmPassword", message |-> "PINs don't match"]
Reported(issue, list) == \E i \in DOMAIN list : list[i] = issue

NotAddresses == {BadMail, DotFirst, DoubleDot, DotAtEnd, NoAt, TwoAts,
                 ShortTld, DigitTld, DashLabel}
Addresses == {JaneMail, SubDomain, PlusMail}

(* C12: a profile form whose email is non-empty and not an address fails   *)
(* validation on submit and no profile-update request is issued; a form    *)
(* with an empty email, whatever fullName and mobile, is valid and its     *)
(* submission issues a request.                                            *)
C12_EmailRule ==
    [][Did("ProfileSubmit")' =>
          /\ profileForm.email \in NotAddresses =>
                (issues' # <<>> /\ inflight' = inflight)
          /\ profileForm.email \in Addresses \cup {<<>>} =>
                /\ issues' = <<>>
                /\ Len(inflight'["profile"]) = Len(inflight["profile"]) + 1]_vars

\* an all-empty profile form was submitted and its request is in flight
C12_Witness ==
    /\ Did("ProfileSubmit")
    /\ profileForm = [fullName |-> <<>>, email |-> <<>>, mobile |-> <<>>]
    /\ issues = <<>>
    /\ Len(inflight["profile"]) = 1
    /\ inflight["profile"][1].body.email = <<>>

\* the four conditions of a valid PIN form
PinFormOk(f) ==
    /\ f.currentPassword # <<>>
    /\ Len(f.newPassword) >= 4
    /\ f.confirmPassword # <<>>
    /\ f.newPassword = f.confirmPassword

(* C13: a PIN-update request is issued only for a PinFormState with        *)
(* currentPin non-empty, length(newPin) >= 4, confirmPin non-empty and     *)
(* newPin = confirmPin; any other submission issues no request, leaves the *)
(* PIN pipeline not Pending and changes neither Mode nor PinFormState.     *)
C13_PinRequestOnlyWhenValid ==
    [][/\ Len(inflight'["password"]) > Len(inflight["password"]) =>
            (Did("PasswordSubmit")' /\ PinFormOk(passwordForm))
       /\ (Did("PasswordSubmit")' /\ ~PinFormOk(passwordForm)) =>
            /\ inflight' = inflight
            /\ ~IsPending("password")'
            /\ Mode' = Mode
            /\ passwordForm' = passwordForm
       /\ (Did("PasswordSubmit")' /\ PinFormOk(passwordForm)) =>
            Len(inflight'["password"]) = Len(inflight["password"]) + 1]_vars

\* a two-character PIN, confirmed, with the current PIN given, was refused
C13_Witness ==
    /\ Did("PasswordSubmit")
    /\ passwordForm = [currentPassword |-> Pin0000, newPassword |-> Pin12,
                       confirmPassword |-> Pin12]
    /\ ~IsPending("password")
    /\ issues # <<>>
    /\ Mode = "EditPin"

(* C15: every PIN-update request carries exactly currentPin and newPin as  *)
(* they are in PinFormState at submission, never confirmPin; every         *)
(* profile-update request carries only fullName, email and mobile.         *)
C15_RequestBodies ==
    [][/\ Len(inflight'["password"]) > Len(inflight["password"]) =>
            inflight'["password"][Len(inflight'["password"])].body =
               [currentPin |-> passwordForm.currentPassword,
                newPin |-> passwordForm.newPassword]
       /\ Len(inflight'["profile"]) > Len(inflight["profile"]) =>
            inflight'["profile"][Len(inflight'["profile"])].body =
               [fullName |-> profileForm.fullName, email |-> profileForm.email,
                mobile |-> profileForm.mobile]
       /\ \A i \in DOMAIN inflight'["password"] :
            DOMAIN inflight'["password"][i].body = {"currentPin", "newPin"}
       /\ \A i \in DOMAIN inflight'["profile"] :
            DOMAIN inflight'["profile"][i].body = {"fullName", "email", "mobile"}]_vars

\* both requests in flight, the PIN one without the confirmation
C15_Witness ==
    /\ Did("PasswordSubmit")
    /\ passwordForm.confirmPassword = Pin1234
    /\ inflight["password"] =
         <<[userId |-> 1, body |-> [currentPin |-> Pin0000, newPin |-> Pin1234]]>>
    /\ IsPending("profile")
    /\ inflight["profile"][1].body.mobile = M555

(* C16: in every reachable state in which the dialog is closed, Mode is    *)
(* View and the three PinFormState fields are empty, also after a mutation *)
(* that was pending at close time has resolved while the dialog is closed. *)
C16_ClosedIsViewAndPinEmpty ==
    ~open => (Mode = "View" /\ passwordForm = EmptyPin)

\* a PIN update failed while the dialog was closed
C16_Witness ==
    /\ ~open
    /\ Did("PasswordFailure")
    /\ toasts # <<>>
    /\ Mode = "View"
    /\ passwordForm = EmptyPin

\* the steps that request no invalidation and start no refetch
QuietEvents ==
    {"PasswordSuccess", "PasswordFailure", "ProfileFailure", "CancelProfileClick",
     "CancelPasswordClick", "TabClick", "HandleClose", "DialogDismiss"}

(* C17: the cached ProfileRecord changes only when a fetch resolves; the   *)
(* cache entry is invalidated only by a successful profile update; PIN     *)
(* success or failure, profile failure, cancel, tab switch and close       *)
(* request no invalidation and start no refetch.                           *)
C17_CacheFrame ==
    [][/\ queryData' # queryData => Did("FetchSuccess")'
       /\ (\E u \in UserIds : invalidated'[u] /\ ~invalidated[u]) =>
             Did("ProfileSuccess")'
       /\ event'[1] \in QuietEvents =>
             /\ queryData' = queryData
             /\ invalidated' = invalidated
             /\ fetching' = fetching]_vars

\* a PIN update succeeded in the open dialog, with cached data and no fetch
C17_Witness ==
    /\ Did("PasswordSuccess")
    /\ open
    /\ queryData[user] # <<>>
    /\ ~invalidated[user]
    /\ ~fetching[user]

StayEvents ==
    {"EditProfileClick", "TabClick", "CancelProfileClick", "CancelPasswordClick"}

(* C20: edit request, tab switch and cancel leave both ProfileFormState    *)
(* and PinFormState unchanged, so unsaved edits persist through cancel;    *)
(* close leaves ProfileFormState unchanged and only clears PinFormState.   *)
C20_NavigationKeepsForms ==
    [][/\ event'[1] \in StayEvents =>
             (profileForm' = profileForm /\ passwordForm' = passwordForm)
       /\ event'[1] \in CloseEvents =>
             (profileForm' = profileForm /\ passwordForm' = EmptyPin)]_vars

\* after a cancel, the next edit request shows the typed values again
C20_Witness ==
    /\ Did("EditProfileClick")
    /\ Mode = "EditProfile"
    /\ formSource = "typed"
    /\ profileForm.fullName = New
    /\ profileForm.email = BadMail
    /\ passwordForm.newPassword = Pin1234

(* C14: a profile fetch is started only by a step after which a user id is *)
(* present, the fetch is for that user, and the dialog is open; while the  *)
(* dialog is closed or there is no user no fetch starts, and an            *)
(* invalidation in that period starts none: the fetch starts with the step *)
(* that makes the gate true again.                                         *)
C14_FetchOnlyWhenEnabled ==
    [][/\ \A u \in UserIds :
             (fetching'[u] /\ ~fetching[u]) => (user' = u /\ open')
       /\ (~open' \/ user' = NoUser) =>
             (\A u \in UserIds : fetching'[u] => fetching[u])
       /\ ((~open \/ user = NoUser) /\ user' # NoUser /\ open' /\ invalidated[user']) =>
             fetching'[user']]_vars

\* the dialog opened on an entry that a profile update, resolved while the
\* dialog was closed, had invalidated without starting a fetch
C14_Witness ==
    /\ Did("HostOpen")
    /\ open
    /\ user # NoUser
    /\ queryData[user] # <<>>
    /\ invalidated[user]
    /\ fetching[user]
    /\ formSource = "submit"

\* the ProfileRecord the component currently sees through its query
SeenRecord ==
    IF user # NoUser /\ queryData[user] # <<>> THEN queryData[user] ELSE <<>>

(* C19, as stated: in every reachable state ProfileFormState equals the    *)
(* projection of the latest ProfileRecord currently seen through the fetch *)
(* path, all "" when none is seen, unless the user has edited the form or  *)
(* a successful submit has replaced it since; also after the record was    *)
(* discarded because the user id changed.                                  *)
C19_FormReflectsSeenRecord ==
    formSource \in {"default", "fetch"} =>
        profileForm = IF SeenRecord = <<>>
                      THEN [fullName |-> <<>>, email |-> <<>>, mobile |-> <<>>]
                      ELSE Triple(SeenRecord[1])

\* the steps that resolve a mutation of pipeline p
Resolutions(p) ==
    IF p = "profile" THEN {"ProfileSuccess", "ProfileFailure"}
                     ELSE {"PasswordSuccess", "PasswordFailure"}

(* C21: when the network eventually answers, every issued mutation         *)
(* resolves: a pending pipeline leads to a pipeline that is not pending.   *)
(* A resolution step takes exactly one request out of its pipeline and     *)
(* emits exactly one notification; after it the pipeline is not pending    *)
(* and its submit is enabled again, and after a failure both forms are as  *)
(* they were. Cancel, close, re-open, edit and tab steps leave the pending *)
(* requests as they are, and in EditProfile and EditPin the cancel is      *)
(* enabled also while a mutation is pending.                               *)
C21_MutationsResolveOnce ==
    /\ \A p \in Pipelines : IsPending(p) ~> ~IsPending(p)
    /\ [][\A p \in Pipelines :
            /\ event'[1] \in Resolutions(p) =>
                  /\ IsPending(p)
                  /\ Len(inflight'[p]) = Len(inflight[p]) - 1
                  /\ \A q \in Pipelines \ {p} : inflight'[q] = inflight[q]
                  /\ Len(toasts') = 1
                  /\ ~IsPending(p)'
                  /\ SubmitEnabled(p)'
            /\ inflight'[p] # inflight[p] =>
                  event'[1] \in Resolutions(p) \cup
                     {IF p = "profile" THEN "ProfileSubmit" ELSE "PasswordSubmit"}
            /\ event'[1] \in {"ProfileFailure", "PasswordFailure"} =>
                  /\ profileForm' = profileForm
                  /\ passwordForm' = passwordForm
                  /\ Mode' = Mode]_vars
    /\ [](/\ (open /\ Mode = "EditProfile") => ENABLED CancelProfileClick
          /\ (open /\ Mode = "EditPin") => ENABLED CancelPasswordClick
          /\ (open /\ Mode = "EditProfile" /\ ~IsPending("profile")) => ENABLED ProfileSubmit
          /\ (open /\ Mode = "EditPin" /\ ~IsPending("password")) => ENABLED PasswordSubmit)

\* a PIN update failed in the open PIN tab while a profile update was still
\* pending: the PIN form is still filled and can be submitted again
C21_Witness ==
    /\ Did("PasswordFailure")
    /\ open
    /\ Mode = "EditPin"
    /\ passwordForm = [currentPassword |-> Pin0000, newPassword |-> Pin1234,
                       confirmPassword |-> Pin1234]
    /\ Len(toasts) = 1
    /\ ~IsPending("password")
    /\ IsPending("profile")
    /\ ENABLED PasswordSubmit
    /\ ENABLED CancelPasswordClick

====
